---- MODULE Spec2Model ----
(***************************************************************************)
(* A model of the retrieval-augmented chat core of the document system:    *)
(* the chat service (backend/app/services/chat_service.py), the document   *)
(* processor (backend/app/services/document_processor.py) and the routes   *)
(* that call them (backend/app/api/chat.py, backend/app/api/documents.py). *)
(*                                                                         *)
(* Texts that the code slices, strips or lower-cases are sequences of      *)
(* one-character strings; identifiers, file names and roles are strings.   *)
(* A uuid string is the one-element sequence <<n>> of its draw number, the *)
(* empty string is <<>>.  Confidence values are in tenths.                 *)
(***************************************************************************)
EXTENDS Integers, Sequences, FiniteSets, TLC

VARIABLES
    conversation_history,  \* ChatService.conversation_history: session id -> session
    vector_store,          \* the Chroma collection "documents": sequence of chunks
    uuid_count,            \* how many uuid.uuid4() values have been drawn
    turns,                 \* per session, the (query, model response) of each turn that succeeded
    call,                  \* the last operation with the inputs it ran on
    response_data,         \* what the last operation returned
    pipeline,              \* where the run of process_document that is followed step by step is
    db_documents,          \* the rows of the table "documents", by id
    document_seq,          \* the last id the table "documents" gave out
    tasks,                 \* the background tasks added and not yet run
    threads                \* the calls of generate_response running side by side, by thread

vars == <<conversation_history, vector_store, uuid_count, turns, call, response_data,
          pipeline, db_documents, document_seq, tasks, threads>>

----------------------------------------------------------------------------
(* Bounds of the model *)

\* uuid4() draws in one run (sessions, message timestamps, document ids)
MaxUuid == 5

\* messages of one conversation
MaxMessages == 8

\* chunks one document is split into
MaxChunks == 3

\* chunks the vector index holds
MaxStore == 6

\* rows the table "documents" is given
MaxDocuments == 2

(* Program constants *)

\* "Last 5 messages for context"
HistoryWindow == 5

\* search_relevant_context(query, limit = 5)
SearchLimit == 5

\* content preview length in a source entry
PreviewLen == 200

\* confidence, in tenths: 0.8 with context, 0.3 without, 0.0 on failure
ConfidenceWithContext == 8

ConfidenceNoContext == 3

ConfidenceFailed == 0

----------------------------------------------------------------------------
(* Strings *)

IsSpace(c) == c \in {" ", "\n", "\t"}

\* str.strip(): drop leading and trailing whitespace
RECURSIVE LStrip(_)
LStrip(s) == IF s # <<>> /\ IsSpace(Head(s)) THEN LStrip(Tail(s)) ELSE s

RECURSIVE RStrip(_)
RStrip(s) ==
    IF s # <<>> /\ IsSpace(s[Len(s)]) THEN RStrip(SubSeq(s, 1, Len(s) - 1)) ELSE s

Strip(s) == RStrip(LStrip(s))

UpperCase ==
    <<"A","B","C","D","E","F","G","H","I","J","K","L","M",
      "N","O","P","Q","R","S","T","U","V","W","X","Y","Z">>

LowerCase ==
    <<"a","b","c","d","e","f","g","h","i","j","k","l","m",
      "n","o","p","q","r","s","t","u","v","w","x","y","z">>

LowerChar(c) ==
    IF \E i \in 1..Len(UpperCase) : UpperCase[i] = c
    THEN LowerCase[CHOOSE i \in 1..Len(UpperCase) : UpperCase[i] = c]
    ELSE c

\* str.lower()
Lower(s) == [i \in 1..Len(s) |-> LowerChar(s[i])]

\* "\n".join(parts)
RECURSIVE JoinLines(_)
JoinLines(parts) ==
    IF parts = <<>> THEN <<>>
    ELSE IF Len(parts) = 1 THEN parts[1]
    ELSE parts[1] \o <<"\n">> \o JoinLines(Tail(parts))

\* s[:n]
Prefix(s, n) == SubSeq(s, 1, IF Len(s) < n THEN Len(s) ELSE n)

\* s[-n:]
Suffix(s, n) == SubSeq(s, IF Len(s) < n THEN 1 ELSE Len(s) - n + 1, Len(s))

\* dict.get(key, default)
Get(d, key, default) == IF key \in DOMAIN d THEN d[key] ELSE default

\* str.isdigit() on one character
IsDigit(c) == c \in {"0", "1", "2", "3", "4", "5", "6", "7", "8", "9"}

\* sep in s
Contains(s, sep) == \E i \in 1..Len(s) : s[i] = sep

\* s.find(sep) + 1, for a separator that occurs in s
Find(s, sep) == CHOOSE i \in 1..Len(s) : s[i] = sep /\ \A h \in 1..(i - 1) : s[h] # sep

\* s.split(sep)
RECURSIVE Split(_, _)
Split(s, sep) ==
    IF ~Contains(s, sep) THEN <<s>>
    ELSE <<SubSeq(s, 1, Find(s, sep) - 1)>> \o Split(SubSeq(s, Find(s, sep) + 1, Len(s)), sep)

\* s.split(sep, 1)[1], for a separator that occurs in s
AfterFirst(s, sep) == SubSeq(s, Find(s, sep) + 1, Len(s))

\* a text of n characters
Text(n) == [i \in 1..n |-> "x"]

Ellipsis == <<".", ".", ".">>

ApologyText ==
    <<"I"," ","a","p","o","l","o","g","i","z","e",","," ","b","u","t"," ","I"," ","e","n","c",
      "o","u","n","t","e","r","e","d"," ","a","n"," ","e","r","r","o","r"," ","w","h","i","l",
      "e"," ","p","r","o","c","e","s","s","i","n","g"," ","y","o","u","r"," ","r","e","q","u",
      "e","s","t","."," ","P","l","e","a","s","e"," ","t","r","y"," ","a","g","a","i","n",".">>

UnknownType == <<"U","n","k","n","o","w","n">>

NoConversationText ==
    <<"N","o"," ","c","o","n","v","e","r","s","a","t","i","o","n"," ","t","o"," ","s","u","m",
      "m","a","r","i","z","e",".">>

UnableSummaryText ==
    <<"U","n","a","b","l","e"," ","t","o"," ","g","e","n","e","r","a","t","e"," ","s","u","m",
      "m","a","r","y",".">>

NoPreviousConversation ==
    <<"N","o"," ","p","r","e","v","i","o","u","s"," ","c","o","n","v","e","r","s","a","t","i",
      "o","n",".">>

NoRecentContext ==
    <<"N","o"," ","r","e","c","e","n","t"," ","c","o","n","t","e","x","t",".">>

\* the role of a message as it is printed
RoleText(role) ==
    IF role = "user" THEN <<"u","s","e","r">> ELSE <<"a","s","s","i","s","t","a","n","t">>

\* f"{msg['role']}: {msg['content']}"
MessageLine(msg) == RoleText(msg.role) \o <<":", " ">> \o msg.content

\* "\n".join([f"{msg['role']}: {msg['content']}" for msg in messages])
RenderMessages(messages) == JoinLines([i \in 1..Len(messages) |-> MessageLine(messages[i])])

----------------------------------------------------------------------------
(* uuid.uuid4(): a value no earlier draw returned *)

uuid4(count) == <<count + 1>>

\* the uuid strings drawn so far
Issued == {<<i>> : i \in 1..uuid_count}

----------------------------------------------------------------------------
(* Collaborators: what the language model and the vector index may answer *)

\* chain.run: the model's text, or an exception
LLMError == [failed |-> TRUE, text |-> <<>>]

LLMText(text) == [failed |-> FALSE, text |-> text]

\* an answer of the model with whitespace around it
PaddedAnswer == LLMText(<<" ", "b", "\n">>)

\* what the model may answer to the response prompt
ChatOutputs == {LLMText(<<"a">>), PaddedAnswer}

\* the vector index search: the hits, or an exception
SearchError == [failed |-> TRUE, results |-> <<>>]

\* questions a client may send, the empty one included
Queries == {<<>>, <<"q">>}

\* session titles a client may ask for
Titles == {"Invoices"}

\* Rotate a sequence left by r
Rotate(s, r) == [i \in 1..Len(s) |-> s[((i - 1 + r) % Len(s)) + 1]]

\* Chroma similarity_search_with_score(query, k): the k nearest chunks, nearest
\* first, each with its distance. The ranking is the provider's: rank r puts
\* chunk r + 1 first and goes on cyclically; the distance grows with the rank.
similarity_search_with_score(store, k, r) ==
    LET ranked == IF store = <<>> THEN <<>> ELSE Rotate(store, r)
        n == IF Len(ranked) < k THEN Len(ranked) ELSE k
    IN [failed |-> FALSE, results |-> [i \in 1..n |-> [doc |-> ranked[i], score |-> i]]]

\* the rankings the provider may produce over a store
Rankings(store) == IF store = <<>> THEN {0} ELSE 0..(Len(store) - 1)

----------------------------------------------------------------------------
(* DocumentProcessor.search_documents *)

search_documents(search) ==
    IF search.failed
    THEN [raised |-> TRUE, value |-> <<>>]
    ELSE [raised |-> FALSE,
          value |-> [i \in 1..Len(search.results) |->
                        [content |-> search.results[i].doc.page_content,
                         metadata |-> search.results[i].doc.metadata,
                         score |-> search.results[i].score]]]

----------------------------------------------------------------------------
(* DocumentProcessor: the pipeline *)

Pdf == <<".", "p", "d", "f">>

Txt == <<".", "t", "x", "t">>

Docx == <<".", "d", "o", "c", "x">>

\* the extensions load_document has a loader for
LoaderExtensions == {Pdf, Txt}

\* settings.allowed_extensions: what the upload endpoint accepts
allowed_extensions == {Pdf, Txt, Docx}

Contract == <<"c","o","n","t","r","a","c","t">>

Invoice == <<"i","n","v","o","i","c","e">>

Report == <<"r","e","p","o","r","t">>

Letter == <<"l","e","t","t","e","r">>

Other == <<"o","t","h","e","r">>

\* the categories of the classification prompt
Categories == {Contract, Invoice, Report, Letter, Other}

\* the document types extract_structured_data has a prompt for
extraction_prompts == {Contract, Invoice, Report}

\* what PyPDFLoader(file_path).load() gives: one Document per page, with its page number
PyPDFLoader(file) ==
    [i \in 1..Len(file.texts) |->
        [page_content |-> file.texts[i],
         metadata |-> [source |-> file.file_path.name, page |-> i - 1]]]

\* what TextLoader(file_path).load() gives: one Document holding the whole file
TextLoader(file) ==
    <<[page_content |-> JoinLines(file.texts), metadata |-> [source |-> file.file_path.name]]>>

\* a mutant of load_document: every extension but .txt is read as a PDF
load_document_pdf_default(file, load_ok) ==
    IF ~load_ok THEN [raised |-> TRUE, error |-> "LoadError", documents |-> <<>>]
    ELSE IF Lower(file.file_path.suffix) = Txt
    THEN [raised |-> FALSE, error |-> "", documents |-> TextLoader(file)]
    ELSE [raised |-> FALSE, error |-> "", documents |-> PyPDFLoader(file)]

\* load_document: the loader is chosen by the lower-cased extension; any other
\* extension is a ValueError, a failure of the loader is the loader's exception
load_document(file, load_ok) ==
    LET file_extension == Lower(file.file_path.suffix)
    IN IF file_extension \notin {Pdf, Txt}
       THEN [raised |-> TRUE, error |-> "ValueError", documents |-> <<>>]
       ELSE IF ~load_ok
       THEN [raised |-> TRUE, error |-> "LoadError", documents |-> <<>>]
       ELSE IF file_extension = Pdf
       THEN [raised |-> FALSE, error |-> "", documents |-> PyPDFLoader(file)]
       ELSE [raised |-> FALSE, error |-> "", documents |-> TextLoader(file)]

\* classify_document: chain.run(text = text[:2000]), then result.strip().lower()
classify_document(text, llm) ==
    IF llm.failed
    THEN [raised |-> TRUE, value |-> <<>>]
    ELSE [raised |-> FALSE, value |-> Lower(Strip(llm.text))]

\* json.loads on the outputs the model is given here: an object, an array,
\* or text that is no JSON
json_loads(result) ==
    IF result = <<"{", "}">> THEN [raised |-> FALSE, value |-> [type |-> "dict", items |-> <<>>]]
    ELSE IF result = <<"[", "]">> THEN [raised |-> FALSE, value |-> [type |-> "list", items |-> <<>>]]
    ELSE [raised |-> TRUE, value |-> [type |-> "none", items |-> <<>>]]

\* extract_structured_data
extract_structured_data(text, document_type, llm) ==
    IF document_type \notin extraction_prompts
    THEN [raised |-> FALSE,
          value |-> [type |-> "dict", items |-> [raw_text |-> Prefix(text, 1000)]]]
    ELSE IF llm.failed
    THEN [raised |-> TRUE, value |-> [type |-> "none", items |-> <<>>]]
    ELSE LET parsed == json_loads(llm.text)
         IN IF parsed.raised
            THEN [raised |-> FALSE,
                  value |-> [type |-> "dict",
                             items |-> [extracted_text |-> llm.text,
                                        raw_text |-> Prefix(text, 1000)]]]
            ELSE parsed

\* text_splitter.split_documents: every piece is a new Document with a deep copy of
\* its page's metadata. A page of a PDF is below chunk_size here and is one
\* piece; the text file is cut back into the pieces it was joined from.
split_documents(file, documents) ==
    IF Lower(file.file_path.suffix) = Pdf
    THEN documents
    ELSE [i \in 1..Len(file.texts) |->
             [page_content |-> file.texts[i], metadata |-> documents[1].metadata]]

\* list.index(x) for x = chunks[j]: the first position holding x itself or a
\* Document equal to it (same page_content and metadata)
ListIndex(chunks, j) ==
    (CHOOSE i \in 1..j : /\ (i = j \/ chunks[i] = chunks[j])
                         /\ \A h \in 1..(i - 1) : chunks[h] # chunks[j]) - 1

\* chunk.metadata.update({...}) on chunk j, its index looked up in `lookup`
StampChunk(chunks, lookup, j, vector_id, original_filename, document_type) ==
    [chunks EXCEPT ![j].metadata =
        [document_id |-> vector_id,
         filename |-> original_filename,
         document_type |-> document_type,
         chunk_index |-> ListIndex(lookup, j)] @@ @]

\* a mutant of StampChunks: every index is looked up in the list as it was split
RECURSIVE StampChunksFromSplit(_, _, _, _, _, _)
StampChunksFromSplit(chunks, split, j, vector_id, original_filename, document_type) ==
    IF j > Len(chunks) THEN chunks
    ELSE StampChunksFromSplit(
             StampChunk(chunks, split, j, vector_id, original_filename, document_type),
             split, j + 1, vector_id, original_filename, document_type)

\* a mutant of AddMetadata
AddMetadataFromSplit(text_chunks, vector_id, original_filename, document_type) ==
    StampChunksFromSplit(text_chunks, text_chunks, 1, vector_id, original_filename,
                         document_type)

\* "for chunk in text_chunks: chunk.metadata.update(...)", from chunk j on
RECURSIVE StampChunks(_, _, _, _, _)
StampChunks(chunks, j, vector_id, original_filename, document_type) ==
    IF j > Len(chunks) THEN chunks
    ELSE StampChunks(
             StampChunk(chunks, chunks, j, vector_id, original_filename, document_type),
             j + 1, vector_id, original_filename, document_type)

\* process_document, "Add metadata to chunks"
AddMetadata(text_chunks, vector_id, original_filename, document_type) ==
    StampChunks(text_chunks, 1, vector_id, original_filename, document_type)

\* process_document, the except branch: the exception goes on to the caller.
\* llm_calls: how many times the run called the language model
ProcessingError(store, count, error, llm_calls) ==
    [raised |-> TRUE, error |-> error, llm_calls |-> llm_calls,
     store |-> store, uuid |-> count, chunks |-> <<>>]

\* DocumentProcessor.process_document. env: what the collaborators do in this run
\* (load_ok, classify, extract, split_ok, add_ok, size_ok)
process_document(store, count, file, env) ==
    LET loaded == load_document(file, env.load_ok)
        full_text == JoinLines([i \in 1..Len(loaded.documents) |->
                                   loaded.documents[i].page_content])
        document_type == classify_document(full_text, env.classify)
        extracted_data == extract_structured_data(full_text, document_type.value, env.extract)
        vector_id == uuid4(count)
        text_chunks == AddMetadata(split_documents(file, loaded.documents), vector_id,
                                   file.original_filename, document_type.value)
        llm_calls == IF document_type.value \in extraction_prompts THEN 2 ELSE 1
    IN IF loaded.raised THEN ProcessingError(store, count, loaded.error, 0)
       ELSE IF document_type.raised THEN ProcessingError(store, count, "LLMError", 1)
       ELSE IF extracted_data.raised THEN ProcessingError(store, count, "LLMError", 2)
       ELSE IF ~env.split_ok THEN ProcessingError(store, count, "SplitError", llm_calls)
       ELSE IF ~env.add_ok THEN ProcessingError(store, count + 1, "IndexError", llm_calls)
       ELSE IF ~env.size_ok
       THEN ProcessingError(store \o text_chunks, count + 1, "OSError", llm_calls)
       ELSE [raised |-> FALSE,
             error |-> "",
             llm_calls |-> llm_calls,
             store |-> store \o text_chunks,
             uuid |-> count + 2,
             chunks |-> text_chunks,
             vector_id |-> vector_id,
             document_type |-> document_type.value,
             extracted_data |-> extracted_data.value,
             metadata |-> [num_pages |-> Len(loaded.documents),
                           num_chunks |-> Len(text_chunks),
                           file_size |-> file.size,
                           processing_timestamp |-> uuid4(count + 1)],
             num_chunks |-> Len(text_chunks)]

\* a run of process_document on an uploaded file
process_document_call(file, env) ==
    /\ \E out \in {process_document(vector_store, uuid_count, file, env)} :
          /\ vector_store' = out.store
          /\ uuid_count' = out.uuid
          /\ call' = [op |-> "process_document", file |-> file, env |-> env]
          /\ response_data' = [f \in DOMAIN out \ {"store", "uuid"} |-> out[f]]
    /\ UNCHANGED <<threads, conversation_history, turns, pipeline, db_documents, document_seq, tasks>>

----------------------------------------------------------------------------
(* ChatService *)

create_session(hist, count, title) ==
    LET session_id == uuid4(count)
    IN [session_id |-> session_id,
        uuid |-> count + 1,
        history |-> (session_id :> [title |-> title, messages |-> <<>>, context |-> <<>>])
                        @@ hist]

get_session(hist, session_id) ==
    IF session_id \in DOMAIN hist
    THEN [found |-> TRUE, session |-> hist[session_id]]
    ELSE [found |-> FALSE, session |-> [title |-> "", messages |-> <<>>, context |-> <<>>]]

\* a mutant of add_message: keeps only the last HistoryWindow messages
add_message_trimmed(hist, count, session_id, content, role) ==
    IF session_id \notin DOMAIN hist
    THEN [raised |-> TRUE, history |-> hist, uuid |-> count]
    ELSE LET message == [content |-> content, role |-> role, timestamp |-> uuid4(count)]
         IN [raised |-> FALSE,
             uuid |-> count + 1,
             history |-> [hist EXCEPT ![session_id].messages =
                             Suffix(Append(@, message), HistoryWindow)]]

\* a mutant of add_message: puts the message in front
add_message_front(hist, count, session_id, content, role) ==
    IF session_id \notin DOMAIN hist
    THEN [raised |-> TRUE, history |-> hist, uuid |-> count]
    ELSE LET message == [content |-> content, role |-> role, timestamp |-> uuid4(count)]
         IN [raised |-> FALSE,
             uuid |-> count + 1,
             history |-> [hist EXCEPT ![session_id].messages = <<message>> \o @]]

\* a mutant of add_message: the session keeps user and assistant messages in
\* alternation, a message of the role stored last takes the place of that one
add_message_pairwise(hist, count, session_id, content, role) ==
    IF session_id \notin DOMAIN hist
    THEN [raised |-> TRUE, history |-> hist, uuid |-> count]
    ELSE LET message == [content |-> content, role |-> role, timestamp |-> uuid4(count)]
             messages == hist[session_id].messages
         IN [raised |-> FALSE,
             uuid |-> count + 1,
             history |-> [hist EXCEPT ![session_id].messages =
                             IF messages # <<>> /\ messages[Len(messages)].role = role
                             THEN [messages EXCEPT ![Len(messages)] = message]
                             ELSE Append(messages, message)]]

add_message(hist, count, session_id, content, role) ==
    IF session_id \notin DOMAIN hist
    THEN [raised |-> TRUE, history |-> hist, uuid |-> count]
    ELSE LET message == [content |-> content, role |-> role, timestamp |-> uuid4(count)]
         IN [raised |-> FALSE,
             uuid |-> count + 1,
             history |-> [hist EXCEPT ![session_id].messages = Append(@, message)]]

\* a mutant of search_relevant_context: lets the search failure through
search_relevant_context_raising(search) == search_documents(search)

search_relevant_context(search) ==
    LET search_results == search_documents(search)
    IN IF search_results.raised
       THEN [raised |-> FALSE, value |-> <<>>]
       ELSE search_results

\* a mutant of ResolveSession: an unknown identifier is taken as the new key
ResolveSessionKeepId(hist, count, session_id) ==
    IF get_session(hist, session_id).found
    THEN [session_id |-> session_id, uuid |-> count, history |-> hist]
    ELSE [session_id |-> session_id,
          uuid |-> count + 1,
          history |-> (session_id :> [title |-> "New Chat", messages |-> <<>>,
                                      context |-> <<>>]) @@ hist]

\* generate_response, "Get conversation history": the session of this turn
ResolveSession(hist, count, session_id) ==
    IF get_session(hist, session_id).found
    THEN [session_id |-> session_id, uuid |-> count, history |-> hist]
    ELSE create_session(hist, count, "New Chat")

\* a mutant of ContentPreview: cuts texts of exactly PreviewLen characters too
ContentPreviewOffByOne(content) ==
    IF Len(content) >= PreviewLen THEN Prefix(content, PreviewLen) \o Ellipsis ELSE content

\* result["content"][:200] + "..." if len(result["content"]) > 200 else result["content"]
ContentPreview(content) ==
    IF Len(content) > PreviewLen THEN Prefix(content, PreviewLen) \o Ellipsis ELSE content

\* generate_response, "sources = [...]"
BuildSources(relevant_context) ==
    [i \in 1..Len(relevant_context) |->
        LET result == relevant_context[i]
        IN [filename |-> Get(result.metadata, "filename", "Unknown"),
            document_type |-> Get(result.metadata, "document_type", UnknownType),
            content |-> ContentPreview(result.content),
            score |-> result.score]]

\* a mutant of HistoryMessages: every message of the session goes into the prompt
HistoryMessagesAll(session) == session.messages

\* the messages rendered into the prompt: session["messages"][-5:]
HistoryMessages(session) == Suffix(session.messages, HistoryWindow)

\* generate_response, "Build conversation history" and the history argument of
\* chain.run
HistoryArgument(session) ==
    LET history_text == IF session.messages # <<>>
                        THEN RenderMessages(HistoryMessages(session))
                        ELSE <<>>
    IN IF history_text # <<>> THEN history_text ELSE NoPreviousConversation

\* a mutant of Confidence: the score follows the model's answer
ConfidenceFromResponse(relevant_context, response) ==
    IF Len(Strip(response)) > 1 THEN ConfidenceWithContext ELSE ConfidenceNoContext

\* confidence = 0.8 if relevant_context else 0.3
Confidence(relevant_context, response) ==
    IF relevant_context # <<>> THEN ConfidenceWithContext ELSE ConfidenceNoContext

\* a mutant of ErrorResult: the handler lets the exception through
ErrorResultReraise(session_id) == [raised |-> TRUE]

\* generate_response, the except branch: the fixed degraded result
ErrorResult(session_id) ==
    [raised |-> FALSE,
     response |-> ApologyText,
     session_id |-> session_id,
     sources |-> <<>>,
     confidence |-> ConfidenceFailed]

\* a mutant of RunTurn: the user message is stored before the model is called
RunTurnEagerAppend(hist, count, session_id, query, llm) ==
    LET user == add_message(hist, count, session_id, query, "user")
    IN IF user.raised \/ llm.failed
       THEN [raised |-> TRUE, history |-> user.history, uuid |-> user.uuid]
       ELSE LET assistant == add_message(user.history, user.uuid, session_id, llm.text, "assistant")
            IN [raised |-> assistant.raised, history |-> assistant.history,
                uuid |-> assistant.uuid]

\* generate_response, chain.run and the two add_message calls after it
RunTurn(hist, count, session_id, query, llm) ==
    IF llm.failed
    THEN [raised |-> TRUE, history |-> hist, uuid |-> count]
    ELSE LET user == add_message(hist, count, session_id, query, "user")
         IN IF user.raised
            THEN [raised |-> TRUE, history |-> user.history, uuid |-> user.uuid]
            ELSE LET assistant ==
                         add_message(user.history, user.uuid, session_id, llm.text, "assistant")
                 IN [raised |-> assistant.raised, history |-> assistant.history,
                     uuid |-> assistant.uuid]

\* ChatService.generate_response: the result, the store and uuid count it leaves,
\* and what the model was asked
generate_response(hist, count, query, session_id, search, llm) ==
    LET relevant_context == search_relevant_context(search)
    IN IF relevant_context.raised
       THEN [result |-> ErrorResult(session_id), history |-> hist, uuid |-> count,
             prompt |-> [called |-> FALSE, query |-> <<>>, history |-> <<>>]]
       ELSE LET resolved == ResolveSession(hist, count, session_id)
                sources == BuildSources(relevant_context.value)
                prompt == [called |-> TRUE,
                           query |-> query,
                           history |-> HistoryArgument(resolved.history[resolved.session_id])]
                turn == RunTurn(resolved.history, resolved.uuid, resolved.session_id,
                                query, llm)
            IN IF turn.raised
               THEN [result |-> ErrorResult(resolved.session_id),
                     history |-> turn.history, uuid |-> turn.uuid, prompt |-> prompt]
               ELSE [result |-> [raised |-> FALSE,
                                 response |-> Strip(llm.text),
                                 session_id |-> resolved.session_id,
                                 sources |-> sources,
                                 confidence |-> Confidence(relevant_context.value, llm.text)],
                     history |-> turn.history, uuid |-> turn.uuid, prompt |-> prompt]

\* the language model was not called
NotCalled == [called |-> FALSE, text |-> <<>>]

\* a mutant of get_conversation_summary: only the prompt window is summarized
get_conversation_summary_window(hist, session_id, llm) ==
    LET session == get_session(hist, session_id)
    IN IF ~session.found \/ session.session.messages = <<>>
       THEN [raised |-> FALSE, summary |-> NoConversationText, prompt |-> NotCalled]
       ELSE LET messages_text == RenderMessages(HistoryMessages(session.session))
            IN [raised |-> FALSE,
                summary |-> IF llm.failed THEN UnableSummaryText ELSE Strip(llm.text),
                prompt |-> [called |-> TRUE, text |-> messages_text]]

\* ChatService.get_conversation_summary: the summary, and what the model was asked
get_conversation_summary(hist, session_id, llm) ==
    LET session == get_session(hist, session_id)
    IN IF ~session.found \/ session.session.messages = <<>>
       THEN [raised |-> FALSE, summary |-> NoConversationText, prompt |-> NotCalled]
       ELSE LET messages_text == RenderMessages(session.session.messages)
            IN [raised |-> FALSE,
                summary |-> IF llm.failed THEN UnableSummaryText ELSE Strip(llm.text),
                prompt |-> [called |-> TRUE, text |-> messages_text]]

\* suggest_follow_up_questions, the body of "for line in lines": the question of
\* one line, or nothing
ParseLine(raw) ==
    LET line == Strip(raw)
    IN IF line # <<>> /\ IsDigit(line[1])
       THEN LET question == IF Contains(line, ".") THEN Strip(AfterFirst(line, ".")) ELSE line
            IN IF question # <<>> THEN <<question>> ELSE <<>>
       ELSE <<>>

\* follow_up_questions after the loop over lines[i..]
RECURSIVE ParseLines(_, _)
ParseLines(lines, i) ==
    IF i > Len(lines) THEN <<>> ELSE ParseLine(lines[i]) \o ParseLines(lines, i + 1)

\* a mutant of ParseSuggestions: every question found is returned
ParseSuggestionsUncapped(suggestions) == ParseLines(Split(Strip(suggestions), "\n"), 1)

\* suggest_follow_up_questions, "Parse suggestions" up to the return
ParseSuggestions(suggestions) == Prefix(ParseLines(Split(Strip(suggestions), "\n"), 1), 3)

\* ChatService.suggest_follow_up_questions: the questions, and what the model was asked
suggest_follow_up_questions(hist, query, session_id, llm) ==
    LET session == get_session(hist, session_id)
        recent_text == RenderMessages(Suffix(session.session.messages, 3))
    IN IF ~session.found
       THEN [raised |-> FALSE, suggestions |-> <<>>, prompt |-> NotCalled]
       ELSE [raised |-> FALSE,
             suggestions |-> IF llm.failed THEN <<>> ELSE ParseSuggestions(llm.text),
             prompt |-> [called |-> TRUE,
                         text |-> IF recent_text # <<>> THEN recent_text
                                  ELSE NoRecentContext]]

----------------------------------------------------------------------------
(* Routes of api/chat.py *)

\* the session identifiers a client may send: none, one that no uuid4() returned,
\* a session of the store, or the session it has just deleted
SessionIds ==
    {<<>>, <<0>>} \cup DOMAIN conversation_history
        \cup (IF call.op = "delete_chat_session" THEN {call.session_id} ELSE {})

\* POST /chat/sessions
create_chat_session(title) ==
    /\ \E created \in {create_session(conversation_history, uuid_count, title)} :
          /\ conversation_history' = created.history
          /\ uuid_count' = created.uuid
          /\ turns' = (created.session_id :> <<>>) @@ turns
          /\ call' = [op |-> "create_chat_session"]
          /\ response_data' = [raised |-> FALSE, session_id |-> created.session_id]
    /\ UNCHANGED <<threads, vector_store, pipeline, db_documents, document_seq, tasks>>

\* DELETE /chat/sessions/{session_id}
delete_chat_session(session_id) ==
    /\ conversation_history' =
           [s \in DOMAIN conversation_history \ {session_id} |-> conversation_history[s]]
    /\ turns' = [s \in DOMAIN turns \ {session_id} |-> turns[s]]
    /\ call' = [op |-> "delete_chat_session", session_id |-> session_id]
    /\ response_data' = [raised |-> FALSE]
    /\ UNCHANGED <<threads, vector_store, uuid_count, pipeline, db_documents, document_seq, tasks>>

\* the turns that succeeded, per session, after a call of send_message
TurnsAfter(out, message, llm) ==
    [s \in DOMAIN out.history |->
        LET before == IF s \in DOMAIN turns THEN turns[s] ELSE <<>>
        IN IF /\ ~out.result.raised
              /\ out.result.confidence # ConfidenceFailed
              /\ s = out.result.session_id
           THEN Append(before, [query |-> message, response |-> llm.text])
           ELSE before]

\* POST /chat/message
send_message(message, session_id, search, llm) ==
    /\ \E out \in {generate_response(conversation_history, uuid_count, message,
                                      session_id, search, llm)} :
          /\ conversation_history' = out.history
          /\ uuid_count' = out.uuid
          /\ turns' = TurnsAfter(out, message, llm)
          /\ call' = [op |-> "send_message", message |-> message, session_id |-> session_id,
                      search |-> search, llm |-> llm, prompt |-> out.prompt]
          /\ response_data' = out.result
    /\ UNCHANGED <<threads, vector_store, pipeline, db_documents, document_seq, tasks>>

\* GET /chat/sessions/{session_id}/summary
get_summary(session_id, llm) ==
    /\ \E out \in {get_conversation_summary(conversation_history, session_id, llm)} :
          /\ call' = [op |-> "get_conversation_summary", session_id |-> session_id,
                      llm |-> llm, prompt |-> out.prompt]
          /\ response_data' = [raised |-> out.raised, summary |-> out.summary]
    /\ UNCHANGED <<threads, conversation_history, vector_store, uuid_count, turns, pipeline,
                   db_documents, document_seq, tasks>>

\* POST /chat/sessions/{session_id}/suggestions
get_follow_up_suggestions(message, session_id, llm) ==
    /\ \E out \in {suggest_follow_up_questions(conversation_history, message, session_id,
                                                 llm)} :
          /\ call' = [op |-> "suggest_follow_up_questions", message |-> message,
                      session_id |-> session_id, llm |-> llm, prompt |-> out.prompt]
          /\ response_data' = [raised |-> out.raised, suggestions |-> out.suggestions]
    /\ UNCHANGED <<threads, conversation_history, vector_store, uuid_count, turns, pipeline,
                   db_documents, document_seq, tasks>>

----------------------------------------------------------------------------
(* Routes of api/documents.py *)

max_file_size == 10 * 1024 * 1024

\* save_upload_file: the upload is stored under uploads/<uuid4><extension>
save_upload_file(file, count) ==
    [file EXCEPT !.file_path.name = "uploads/" \o ToString(uuid4(count))]

\* POST /documents/upload. db_ok: the commit of the new row goes through
upload_document(file, db_ok) ==
    LET file_extension == Lower(file.file_path.suffix)
        saved == save_upload_file(file, uuid_count)
        document_id == document_seq + 1
        document == [filename |-> saved.file_path.name,
                     original_filename |-> file.original_filename,
                     file_type |-> file_extension,
                     status |-> "processing",
                     document_type |-> <<>>,
                     extracted_data |-> [type |-> "none", items |-> <<>>],
                     vector_id |-> <<>>]
    IN /\ call' = [op |-> "upload_document", file |-> file, db_ok |-> db_ok]
       /\ IF file_extension \notin allowed_extensions \/ file.size > max_file_size
          THEN /\ response_data' = [raised |-> TRUE, status_code |-> 400]
               /\ UNCHANGED <<uuid_count, db_documents, document_seq, tasks>>
          ELSE IF ~db_ok
          THEN /\ response_data' = [raised |-> TRUE, status_code |-> 500]
               /\ uuid_count' = uuid_count + 1
               /\ UNCHANGED <<db_documents, document_seq, tasks>>
          ELSE /\ response_data' = [raised |-> FALSE, document_id |-> document_id,
                                     status |-> "processing"]
               /\ uuid_count' = uuid_count + 1
               /\ db_documents' = (document_id :> document) @@ db_documents
               /\ document_seq' = document_id
               /\ tasks' = tasks \cup {[file |-> saved, document_id |-> document_id]}
       /\ UNCHANGED <<threads, conversation_history, vector_store, turns, pipeline>>

\* DELETE /documents/{document_id}: the stored file and the row are removed
delete_document(document_id) ==
    /\ call' = [op |-> "delete_document", document_id |-> document_id]
    /\ IF document_id \in DOMAIN db_documents
       THEN /\ db_documents' =
                   [d \in DOMAIN db_documents \ {document_id} |-> db_documents[d]]
            /\ response_data' = [raised |-> FALSE]
       ELSE /\ response_data' = [raised |-> TRUE, status_code |-> 404]
            /\ UNCHANGED db_documents
    /\ UNCHANGED <<threads, conversation_history, vector_store, uuid_count, turns, pipeline,
                   document_seq, tasks>>

\* a mutant of MarkFailed: the except branch reports the document as done
MarkFailedAsCompleted(rows, document_id, handler_ok) ==
    IF handler_ok /\ document_id \in DOMAIN rows
    THEN [raised |-> FALSE, rows |-> [rows EXCEPT ![document_id].status = "completed"]]
    ELSE [raised |-> ~handler_ok, rows |-> rows]

\* process_document_background, the except branch: the row is read again and set
\* to "failed"; when this fails too the exception leaves the task
MarkFailed(rows, document_id, handler_ok) ==
    IF handler_ok /\ document_id \in DOMAIN rows
    THEN [raised |-> FALSE, rows |-> [rows EXCEPT ![document_id].status = "failed"]]
    ELSE [raised |-> ~handler_ok, rows |-> rows]

\* process_document_background, "Update document in database"
MarkCompleted(rows, document_id, result) ==
    [rows EXCEPT ![document_id] =
        [@ EXCEPT !.status = "completed",
                  !.document_type = result.document_type,
                  !.extracted_data = result.extracted_data,
                  !.vector_id = result.vector_id]]

\* process_document_background. db: what the database does in this run (query_ok:
\* the first read of the row; commit_ok: the commit of the result; handler_ok:
\* the read and the commit of the except branch)
process_document_background(rows, store, count, task, env, db) ==
    IF ~db.query_ok
    THEN LET handled == MarkFailed(rows, task.document_id, db.handler_ok)
         IN [raised |-> handled.raised, rows |-> handled.rows, store |-> store,
             uuid |-> count, processed |-> FALSE, result |-> [raised |-> FALSE]]
    ELSE IF task.document_id \notin DOMAIN rows
    THEN [raised |-> FALSE, rows |-> rows, store |-> store, uuid |-> count,
          processed |-> FALSE, result |-> [raised |-> FALSE]]
    ELSE LET out == process_document(store, count, task.file, env)
             result == [f \in DOMAIN out \ {"store", "uuid"} |-> out[f]]
             handled == MarkFailed(rows, task.document_id, db.handler_ok)
         IN IF out.raised \/ ~db.commit_ok
            THEN [raised |-> handled.raised, rows |-> handled.rows, store |-> out.store,
                  uuid |-> out.uuid, processed |-> TRUE, result |-> result]
            ELSE [raised |-> FALSE, rows |-> MarkCompleted(rows, task.document_id, out),
                  store |-> out.store, uuid |-> out.uuid, processed |-> TRUE,
                  result |-> result]

\* the event loop runs a background task that upload_document added
run_background_task(task, env, db) ==
    /\ task \in tasks
    /\ \E out \in {process_document_background(db_documents, vector_store, uuid_count,
                                                 task, env, db)} :
          /\ db_documents' = out.rows
          /\ vector_store' = out.store
          /\ uuid_count' = out.uuid
          /\ call' = [op |-> "process_document_background", task |-> task, env |-> env,
                      db |-> db]
          /\ response_data' = [raised |-> out.raised, processed |-> out.processed,
                               result |-> out.result]
    /\ tasks' = tasks \ {task}
    /\ UNCHANGED <<threads, conversation_history, turns, pipeline, document_seq>>

----------------------------------------------------------------------------
(* The inputs of the operations *)

\* the sequences over S of length lo..hi
Lists(S, lo, hi) == UNION {[1..n -> S] : n \in lo..hi}

UploadedFile(name, suffix, original_filename, texts) ==
    [file_path |-> [name |-> name, suffix |-> suffix],
     original_filename |-> original_filename,
     size |-> Len(JoinLines(texts)),
     texts |-> texts]

\* every collaborator does its work: the model names a category and returns an object
Env(classify, extract) ==
    [load_ok |-> TRUE, classify |-> classify, extract |-> extract,
     split_ok |-> TRUE, add_ok |-> TRUE, size_ok |-> TRUE]

\* what the model may answer to the classification prompt
ClassifyOutputs == {LLMText(<<" ", "I", "n", "v", "o", "i", "c", "e", "\n">>),
                    LLMText(<<"l", "e", "t", "t", "e", "r">>),
                    LLMText(<<"m", "e", "m", "o">>)}

\* what the model may answer to an extraction prompt
ExtractOutputs == {LLMText(<<"{", "}">>), LLMText(<<"[", "]">>), LLMText(<<"n", "/", "a">>)}

InvoiceEnv == Env(LLMText(<<" ", "I", "n", "v", "o", "i", "c", "e", "\n">>), LLMText(<<"{", "}">>))

\* the runs in which one collaborator fails
FailingEnvs ==
    {[InvoiceEnv EXCEPT !.load_ok = FALSE],
     [InvoiceEnv EXCEPT !.classify = LLMError],
     [InvoiceEnv EXCEPT !.extract = LLMError],
     [InvoiceEnv EXCEPT !.split_ok = FALSE],
     [InvoiceEnv EXCEPT !.add_ok = FALSE],
     [InvoiceEnv EXCEPT !.size_ok = FALSE]}

DocEnvs == {Env(c, e) : c \in ClassifyOutputs, e \in ExtractOutputs} \cup FailingEnvs

\* the corpus of the chat scenarios: invoice_a.pdf, one page
ChatFiles == {UploadedFile("uploads/1", Pdf, "invoice_a.pdf", <<Text(1)>>)}

\* uploads of every extension, with pages or pieces that may repeat
DocFiles ==
    {UploadedFile("uploads/2", <<".", "p", "d", "f">>, "report.pdf", texts) :
        texts \in Lists({Text(1), Text(2)}, 0, MaxChunks)}
    \cup {UploadedFile("uploads/3", <<".", "T", "X", "T">>, "NOTES.TXT", texts) :
        texts \in Lists({Text(1), Text(2)}, 0, MaxChunks)}
    \cup {UploadedFile("uploads/4", <<".", "d", "o", "c", "x">>, "memo.docx", <<Text(1)>>),
          UploadedFile("uploads/6", <<".", "X", "y", "z">>, "data.Xyz", <<Text(1)>>)}

\* one upload of each extension
SampleFiles ==
    {UploadedFile("uploads/2", <<".", "p", "d", "f">>, "report.pdf", <<Text(1), Text(2)>>),
     UploadedFile("uploads/3", <<".", "T", "X", "T">>, "NOTES.TXT", <<Text(1), Text(2)>>),
     UploadedFile("uploads/4", <<".", "d", "o", "c", "x">>, "memo.docx", <<Text(1)>>),
     UploadedFile("uploads/6", <<".", "X", "y", "z">>, "data.Xyz", <<Text(1)>>)}

\* the runs of the pipeline: every upload with the collaborators at their best,
\* and one upload of each extension with every behaviour of the collaborators
DocRuns ==
    {<<file, InvoiceEnv>> : file \in DocFiles}
    \cup {<<file, env>> : file \in SampleFiles, env \in DocEnvs}

\* the index holds nothing but the chat corpus
OnlyChatCorpus ==
    \A i \in 1..Len(vector_store) : vector_store[i].metadata.filename = "invoice_a.pdf"

\* the documents that have a chunk in the index
IndexedDocuments == {vector_store[i].metadata.document_id : i \in 1..Len(vector_store)}

\* uploads whose pages are around the preview length
LongFiles ==
    {UploadedFile("uploads/5", Pdf, "contract_b.pdf", texts) :
        texts \in Lists({Text(PreviewLen), Text(PreviewLen + 1)}, 1, MaxChunks)}

\* the database does its work
DbOk == [query_ok |-> TRUE, commit_ok |-> TRUE, handler_ok |-> TRUE]

\* what the database may do during a background task
DbOutcomes ==
    {DbOk,
     [DbOk EXCEPT !.query_ok = FALSE],
     [DbOk EXCEPT !.commit_ok = FALSE],
     [DbOk EXCEPT !.handler_ok = FALSE],
     [DbOk EXCEPT !.commit_ok = FALSE, !.handler_ok = FALSE]}

\* the runs of a background task: every failure of one collaborator while the
\* database works, and every behaviour of the database around a run that
\* succeeds and one whose index write fails
BackgroundRuns ==
    {<<env, DbOk>> : env \in FailingEnvs}
    \cup {<<env, db>> : env \in {InvoiceEnv, [InvoiceEnv EXCEPT !.add_ok = FALSE]},
                        db \in DbOutcomes}

\* the files a client uploads: one of each extension
UploadFiles ==
    {UploadedFile("report.pdf", <<".", "p", "d", "f">>, "report.pdf", <<Text(1), Text(2)>>),
     UploadedFile("memo.docx", <<".", "d", "o", "c", "x">>, "memo.docx", <<Text(1)>>),
     UploadedFile("data.Xyz", <<".", "X", "y", "z">>, "data.Xyz", <<Text(1)>>)}

\* what the model may answer to the suggestion prompt: three numbered lines, plain
\* or with whitespace and a full stop in a question; a fourth line; lines numbered
\* "1)"; an introduction and a marker without a question; no numbered line
FollowUpOutputs ==
    {LLMText(<<"1", ".", " ", "a", "\n", "2", ".", " ", "b", "\n", "3", ".", " ", "c">>),
     LLMText(<<" ", "1", ".", " ", " ", "a", "?", " ", "\n", "2", ".", " ", "b", ".", "c", " ",
               "\n", "\n", "3", ".", "c", "\n">>),
     LLMText(<<"1", ".", " ", "a", "\n", "2", ".", " ", "b", "\n", "3", ".", " ", "c", "\n", "4", ".", " ", "d">>),
     LLMText(<<"1", ")", " ", "a", "\n", "2", ")", " ", "b", "\n", "3", ")", " ", "c">>),
     LLMText(<<"S", "u", "r", "e", ":", "\n", "1", ".", " ", "a", "\n", "2", ".", "\n", "-", " ", "b">>),
     LLMText(<<"n", "o", "n", "e">>)}

SearchOutcomes ==
    {SearchError} \cup
        {similarity_search_with_score(vector_store, SearchLimit, r) : r \in Rankings(vector_store)}

----------------------------------------------------------------------------
(* DocumentProcessor.process_document, one statement group at a time *)

\* no run of process_document is being followed
NoRun ==
    [state |-> "Idle",
     file |-> UploadedFile("", <<>>, "", <<>>),
     env |-> InvoiceEnv,
     start_store |-> <<>>,
     start_uuid |-> 0,
     documents |-> <<>>,
     document_type |-> <<>>,
     extracted_data |-> [type |-> "none", items |-> <<>>],
     text_chunks |-> <<>>,
     vector_id |-> <<>>,
     llm_calls |-> 0,
     writes |-> 0,
     failed_from |-> {}]

\* the states of a run in the order of the statements of process_document
PipelineOrder ==
    <<"Started", "Loaded", "Classified", "Extracted", "Chunked", "Indexed", "Completed">>

\* a mutant of add_documents: the batch is written twice
add_documents_twice(store, text_chunks) == store \o text_chunks \o text_chunks

\* vector_store.add_documents(text_chunks): one batch, appended to the collection
add_documents(store, text_chunks) == store \o text_chunks

\* an exception reaches the except branch of process_document and is raised again
PipelineFails(error, llm_calls) ==
    /\ pipeline' = [pipeline EXCEPT !.state = "Failed",
                                    !.llm_calls = llm_calls,
                                    !.failed_from = @ \cup {pipeline.state}]
    /\ response_data' = [raised |-> TRUE, error |-> error, llm_calls |-> llm_calls,
                         chunks |-> <<>>]

\* process_document is called
start_process_document(file, env) ==
    /\ pipeline.state \in {"Idle", "Completed", "Failed"}
    /\ pipeline' = [NoRun EXCEPT !.state = "Started", !.file = file, !.env = env,
                                 !.start_store = vector_store, !.start_uuid = uuid_count,
                                 !.failed_from = pipeline.failed_from]
    /\ call' = [op |-> "process_document_steps", file |-> file, env |-> env]
    /\ response_data' = [raised |-> FALSE]
    /\ UNCHANGED <<threads, conversation_history, vector_store, uuid_count, turns,
                   db_documents, document_seq, tasks>>

\* "Load document"
load_step ==
    /\ pipeline.state = "Started"
    /\ \E loaded \in {load_document(pipeline.file, pipeline.env.load_ok)} :
          IF loaded.raised
          THEN PipelineFails(loaded.error, 0)
          ELSE /\ pipeline' = [pipeline EXCEPT !.state = "Loaded",
                                               !.documents = loaded.documents]
               /\ UNCHANGED response_data
    /\ UNCHANGED <<threads, conversation_history, vector_store, uuid_count, turns, call,
                   db_documents, document_seq, tasks>>

\* "Extract text", "Classify document"
classify_step ==
    /\ pipeline.state = "Loaded"
    /\ LET full_text == JoinLines([i \in 1..Len(pipeline.documents) |->
                                      pipeline.documents[i].page_content])
       IN \E document_type \in {classify_document(full_text, pipeline.env.classify)} :
             IF document_type.raised
             THEN PipelineFails("LLMError", 1)
             ELSE /\ pipeline' = [pipeline EXCEPT !.state = "Classified",
                                                  !.document_type = document_type.value,
                                                  !.llm_calls = 1]
                  /\ UNCHANGED response_data
    /\ UNCHANGED <<threads, conversation_history, vector_store, uuid_count, turns, call,
                   db_documents, document_seq, tasks>>

\* "Extract structured data"
extract_step ==
    /\ pipeline.state = "Classified"
    /\ LET full_text == JoinLines([i \in 1..Len(pipeline.documents) |->
                                      pipeline.documents[i].page_content])
           llm_calls == IF pipeline.document_type \in extraction_prompts THEN 2 ELSE 1
       IN \E extracted_data \in {extract_structured_data(full_text, pipeline.document_type,
                                                          pipeline.env.extract)} :
             IF extracted_data.raised
             THEN PipelineFails("LLMError", llm_calls)
             ELSE /\ pipeline' = [pipeline EXCEPT !.state = "Extracted",
                                                  !.extracted_data = extracted_data.value,
                                                  !.llm_calls = llm_calls]
                  /\ UNCHANGED response_data
    /\ UNCHANGED <<threads, conversation_history, vector_store, uuid_count, turns, call,
                   db_documents, document_seq, tasks>>

\* "Split text into chunks", "Generate unique ID", "Add metadata to chunks"
chunk_step ==
    /\ pipeline.state = "Extracted"
    /\ IF ~pipeline.env.split_ok
       THEN /\ PipelineFails("SplitError", pipeline.llm_calls)
            /\ UNCHANGED uuid_count
       ELSE LET vector_id == uuid4(uuid_count)
            IN /\ pipeline' =
                      [pipeline EXCEPT
                          !.state = "Chunked",
                          !.vector_id = vector_id,
                          !.text_chunks =
                              AddMetadata(split_documents(pipeline.file, pipeline.documents),
                                          vector_id, pipeline.file.original_filename,
                                          pipeline.document_type)]
               /\ uuid_count' = uuid_count + 1
               /\ UNCHANGED response_data
    /\ UNCHANGED <<threads, conversation_history, vector_store, turns, call,
                   db_documents, document_seq, tasks>>

\* "Store in vector database"
index_step ==
    /\ pipeline.state = "Chunked"
    /\ IF ~pipeline.env.add_ok
       THEN /\ PipelineFails("IndexError", pipeline.llm_calls)
            /\ UNCHANGED vector_store
       ELSE /\ vector_store' = add_documents(vector_store, pipeline.text_chunks)
            /\ pipeline' = [pipeline EXCEPT !.state = "Indexed", !.writes = @ + 1]
            /\ UNCHANGED response_data
    /\ UNCHANGED <<threads, conversation_history, uuid_count, turns, call,
                   db_documents, document_seq, tasks>>

\* "Create metadata" and the return
complete_step ==
    /\ pipeline.state = "Indexed"
    /\ IF ~pipeline.env.size_ok
       THEN /\ PipelineFails("OSError", pipeline.llm_calls)
            /\ UNCHANGED uuid_count
       ELSE /\ pipeline' = [pipeline EXCEPT !.state = "Completed"]
            /\ uuid_count' = uuid_count + 1
            /\ response_data' =
                   [raised |-> FALSE,
                    error |-> "",
                    llm_calls |-> pipeline.llm_calls,
                    chunks |-> pipeline.text_chunks,
                    vector_id |-> pipeline.vector_id,
                    document_type |-> pipeline.document_type,
                    extracted_data |-> pipeline.extracted_data,
                    metadata |-> [num_pages |-> Len(pipeline.documents),
                                  num_chunks |-> Len(pipeline.text_chunks),
                                  file_size |-> pipeline.file.size,
                                  processing_timestamp |-> uuid4(uuid_count)],
                    num_chunks |-> Len(pipeline.text_chunks)]
    /\ UNCHANGED <<threads, conversation_history, vector_store, turns, call,
                   db_documents, document_seq, tasks>>

\* the runs that are followed step by step: the chat corpus with every behaviour
\* of the collaborators, and a text file and a .docx file with the collaborators
\* at their best
PipelineRuns ==
    {<<file, env>> : file \in ChatFiles, env \in {InvoiceEnv} \cup FailingEnvs}
    \cup {<<file, InvoiceEnv>> :
              file \in {f \in SampleFiles : Lower(f.file_path.suffix) \in {Txt, Docx}}}

----------------------------------------------------------------------------
(* ChatService.generate_response called from several threads on the one
   chat_service of api/chat.py: between two statements of one call the other
   call may run. A statement that touches the store is one step; list.append
   and the slice of the history are single operations of the interpreter. *)

\* the callers that run generate_response side by side
Threads == {1, 2}

\* a thread that is not inside generate_response
Idle ==
    [pc |-> "idle", query |-> <<>>, session_id |-> <<>>, relevant_context |-> <<>>,
     sources |-> <<>>, history |-> <<>>, llm |-> LLMError, before |-> <<>>,
     result |-> ErrorResult(<<>>)]

\* the threads that are inside generate_response for a session and have not
\* returned
Running(session_id) ==
    {t \in Threads : threads[t].pc # "idle" /\ threads[t].session_id = session_id}

\* what the session held when the calls now running on it began
Before(hist, session_id) ==
    IF Running(session_id) # {}
    THEN threads[CHOOSE t \in Running(session_id) : TRUE].before
    ELSE hist[session_id].messages

\* generate_response from its first statement to the arguments of chain.run:
\* the search, the session, the sources and the history text
compose_prompt(t, query, session_id, search) ==
    /\ threads[t].pc = "idle"
    /\ \E relevant_context \in {search_relevant_context(search)} :
          IF relevant_context.raised
          THEN /\ threads' = [threads EXCEPT ![t] =
                                 [Idle EXCEPT !.pc = "done", !.query = query,
                                              !.session_id = session_id,
                                              !.result = ErrorResult(session_id)]]
               /\ UNCHANGED <<conversation_history, uuid_count>>
          ELSE \E resolved \in {ResolveSession(conversation_history, uuid_count, session_id)} :
                  /\ conversation_history' = resolved.history
                  /\ uuid_count' = resolved.uuid
                  /\ threads' = [threads EXCEPT ![t] =
                        [pc |-> "composed",
                         query |-> query,
                         session_id |-> resolved.session_id,
                         relevant_context |-> relevant_context.value,
                         sources |-> BuildSources(relevant_context.value),
                         history |-> HistoryArgument(resolved.history[resolved.session_id]),
                         llm |-> LLMError,
                         before |-> Before(resolved.history, resolved.session_id),
                         result |-> ErrorResult(resolved.session_id)]]
    /\ call' = [op |-> "generate_response", thread |-> t, step |-> "compose_prompt"]
    /\ UNCHANGED <<vector_store, turns, response_data, pipeline, db_documents,
                   document_seq, tasks>>

\* response = chain.run(...): the answer of the model, or its exception, which
\* the except branch turns into the degraded result
chain_run(t, llm) ==
    /\ threads[t].pc = "composed"
    /\ threads' = [threads EXCEPT ![t].llm = llm,
                                  ![t].pc = IF llm.failed THEN "done" ELSE "generated"]
    /\ call' = [op |-> "generate_response", thread |-> t, step |-> "chain_run"]
    /\ UNCHANGED <<conversation_history, vector_store, uuid_count, turns, response_data,
                   pipeline, db_documents, document_seq, tasks>>

\* self.add_message(session_id, query, "user")
add_user_message(t) ==
    /\ threads[t].pc = "generated"
    /\ \E user \in {add_message(conversation_history, uuid_count, threads[t].session_id,
                                threads[t].query, "user")} :
          /\ conversation_history' = user.history
          /\ uuid_count' = user.uuid
          /\ threads' = [threads EXCEPT ![t].pc = IF user.raised THEN "done"
                                                  ELSE "user_added"]
    /\ call' = [op |-> "generate_response", thread |-> t, step |-> "add_user_message"]
    /\ UNCHANGED <<vector_store, turns, response_data, pipeline, db_documents,
                   document_seq, tasks>>

\* self.add_message(session_id, response, "assistant") and the result that is
\* returned after it
add_assistant_message(t) ==
    /\ threads[t].pc = "user_added"
    /\ \E assistant \in {add_message(conversation_history, uuid_count, threads[t].session_id,
                                     threads[t].llm.text, "assistant")} :
          /\ conversation_history' = assistant.history
          /\ uuid_count' = assistant.uuid
          /\ threads' = [threads EXCEPT
                ![t].pc = "done",
                ![t].result =
                    IF assistant.raised
                    THEN ErrorResult(threads[t].session_id)
                    ELSE [raised |-> FALSE,
                          response |-> Strip(threads[t].llm.text),
                          session_id |-> threads[t].session_id,
                          sources |-> threads[t].sources,
                          confidence |-> Confidence(threads[t].relevant_context,
                                                    threads[t].llm.text)]]
    /\ call' = [op |-> "generate_response", thread |-> t, step |-> "add_assistant_message"]
    /\ UNCHANGED <<vector_store, turns, response_data, pipeline, db_documents,
                   document_seq, tasks>>

\* the call returns its result to the caller
return_response(t) ==
    /\ threads[t].pc = "done"
    /\ threads' = [threads EXCEPT ![t] = Idle]
    /\ response_data' = threads[t].result
    /\ call' = [op |-> "generate_response", thread |-> t, step |-> "return_response"]
    /\ UNCHANGED <<conversation_history, vector_store, uuid_count, turns, pipeline,
                   db_documents, document_seq, tasks>>

\* the messages the calls inside generate_response may still append to a session
Pending(session_id) ==
    2 * Cardinality({t \in Running(session_id) : threads[t].pc # "done"})

----------------------------------------------------------------------------
Init ==
    /\ conversation_history = <<>>
    /\ vector_store = <<>>
    /\ uuid_count = 0
    /\ turns = <<>>
    /\ call = [op |-> "none"]
    /\ response_data = [raised |-> FALSE]
    /\ pipeline = NoRun
    /\ db_documents = <<>>
    /\ document_seq = 0
    /\ tasks = {}
    /\ threads = [t \in Threads |-> Idle]

\* The chat scenarios: sessions are created, used and deleted over a small corpus
Next ==
    \/ \E title \in Titles : create_chat_session(title) /\ uuid_count' <= MaxUuid
    \/ \E session_id \in DOMAIN conversation_history : delete_chat_session(session_id)
    \/ \E message \in Queries, session_id \in SessionIds,
          search \in SearchOutcomes, llm \in {LLMError, PaddedAnswer} :
            send_message(message, session_id, search, llm) /\ uuid_count' <= MaxUuid
    \/ \E file \in ChatFiles :
          /\ vector_store = <<>>
          /\ process_document_call(file, InvoiceEnv)
          /\ uuid_count' <= MaxUuid

Spec == Init /\ [][Next]_vars

\* One long conversation: a first question opens the session, every later one
\* goes to it
NextHistory ==
    \/ \E message \in Queries, search \in SearchOutcomes, llm \in {LLMError} \cup ChatOutputs :
          /\ conversation_history = <<>>
          /\ send_message(message, <<>>, search, llm)
    \/ \E message \in Queries, session_id \in DOMAIN conversation_history,
          search \in SearchOutcomes, llm \in {LLMError} \cup ChatOutputs :
            /\ send_message(message, session_id, search, llm)
            /\ Len(conversation_history'[session_id].messages) <= MaxMessages
    \/ \E session_id \in {<<0>>} \cup DOMAIN conversation_history,
          llm \in {LLMError} \cup ChatOutputs :
            get_summary(session_id, llm)
    \/ \E session_id \in {<<0>>} \cup DOMAIN conversation_history,
          llm \in {LLMError} \cup FollowUpOutputs :
            get_follow_up_suggestions(<<"q">>, session_id, llm)

SpecHistory == Init /\ [][NextHistory]_vars

\* The pipeline scenarios: any upload, processed into an index that is empty or
\* holds the chat corpus
NextDocs ==
    \/ \E file \in ChatFiles :
          /\ vector_store = <<>>
          /\ process_document_call(file, InvoiceEnv)
          /\ uuid_count' <= MaxUuid
    \/ \E run \in DocRuns :
          /\ OnlyChatCorpus
          /\ process_document_call(run[1], run[2])
          /\ uuid_count' <= MaxUuid

SpecDocs == Init /\ [][NextDocs]_vars

\* The upload scenarios: files are uploaded one after the other, the background
\* task of each runs, rows are deleted
NextUpload ==
    \/ \E file \in UploadFiles, db_ok \in BOOLEAN :
          /\ tasks = {}
          /\ upload_document(file, db_ok)
          /\ document_seq' <= MaxDocuments
          /\ uuid_count' <= MaxUuid
    \/ \E document_id \in 1..MaxDocuments : delete_document(document_id)
    \/ \E task \in tasks, run \in BackgroundRuns :
          /\ run_background_task(task, run[1], run[2])
          /\ uuid_count' <= MaxUuid

SpecUpload == Init /\ [][NextUpload]_vars

\* The pipeline, statement by statement: one run after the other
NextPipeline ==
    \/ \E run \in PipelineRuns : start_process_document(run[1], run[2])
    \/ load_step
    \/ classify_step
    \/ extract_step
    \/ chunk_step /\ uuid_count' <= MaxUuid
    \/ index_step
    \/ complete_step /\ uuid_count' <= MaxUuid

SpecPipeline == Init /\ [][NextPipeline]_vars

\* The retrieval scenarios: a first question over a corpus of one or two
\* documents, some with long pages
NextRetrieval ==
    \/ \E file \in ChatFiles \cup LongFiles :
          /\ Cardinality(IndexedDocuments) <= 1
          /\ process_document_call(file, InvoiceEnv)
          /\ Len(vector_store') <= MaxStore
    \/ \E search \in SearchOutcomes, llm \in ChatOutputs :
          /\ conversation_history = <<>>
          /\ send_message(<<"q">>, <<>>, search, llm)

SpecRetrieval == Init /\ [][NextRetrieval]_vars

\* Two callers on one session: a first question opens it, then the callers ask
\* side by side and collect their answers once all of them are through
NextConcurrent ==
    \/ \E message \in Queries, llm \in {LLMError} \cup ChatOutputs :
          /\ conversation_history = <<>>
          /\ send_message(message, <<>>, SearchError, llm)
    \/ \E t \in Threads, query \in Queries, session_id \in DOMAIN conversation_history,
          search \in SearchOutcomes :
            /\ \A u \in Threads : threads[u].pc # "done"
            /\ Len(conversation_history[session_id].messages) + Pending(session_id) + 2
                  <= MaxMessages
            /\ compose_prompt(t, query, session_id, search)
    \/ \E t \in Threads, llm \in {LLMError} \cup ChatOutputs : chain_run(t, llm)
    \/ \E t \in Threads : add_user_message(t)
    \/ \E t \in Threads : add_assistant_message(t)
    \/ \E t \in Threads :
          /\ \A u \in Threads : threads[u].pc \in {"idle", "done"}
          /\ return_response(t)

SpecConcurrent == Init /\ [][NextConcurrent]_vars

----------------------------------------------------------------------------
(* The claims *)

SentMessage == call.op = "send_message"

Processed == call.op = "process_document"

\* the hits the chat turn worked on: none when the search failed
Hits == IF call.search.failed THEN <<>> ELSE call.search.results

Degraded(result) ==
    /\ result.response = ApologyText
    /\ result.confidence = ConfidenceFailed
    /\ result.sources = <<>>

\* C1: generate_response never raises: whatever the query, the session identifier
\* and the failures of the search and of the model, the caller gets a result with
\* the fields response, session_id, sources and confidence.
C1_NeverRaises ==
    SentMessage =>
        /\ ~response_data.raised
        /\ DOMAIN response_data \ {"raised"} =
               {"response", "session_id", "sources", "confidence"}

\* an empty question with an unknown session identifier while the search and the model fail
C1_Witness ==
    /\ SentMessage
    /\ call.message = <<>>
    /\ call.session_id \notin DOMAIN conversation_history
    /\ call.search.failed
    /\ call.llm.failed

C3_FailedTurnWritesNothing ==
    [][(call'.op = "send_message" /\ ~response_data'.raised
            /\ response_data'.confidence = ConfidenceFailed) =>
          /\ \A s \in DOMAIN conversation_history :
                /\ s \in DOMAIN conversation_history'
                /\ conversation_history'[s].messages = conversation_history[s].messages
          /\ \A s \in DOMAIN conversation_history' \ DOMAIN conversation_history :
                conversation_history'[s].messages = <<>>]_vars

\* a failed turn on a session that already holds messages
C3_Witness ==
    /\ SentMessage
    /\ response_data.confidence = ConfidenceFailed
    /\ call.session_id \in DOMAIN conversation_history
    /\ conversation_history[call.session_id].messages # <<>>

\* C4: with no session identifier or one that is no key of the store, the turn adds
\* exactly one session, under an identifier never issued before, holding nothing
\* but this turn's messages, and returns that identifier; with a known identifier
\* it adds no session and returns the identifier it was given.
C4_SessionResolution ==
    [][call'.op = "send_message" =>
          IF call'.session_id \in DOMAIN conversation_history
          THEN /\ DOMAIN conversation_history' = DOMAIN conversation_history
               /\ response_data'.session_id = call'.session_id
          ELSE \E new \in DOMAIN conversation_history' :
                  /\ DOMAIN conversation_history' = DOMAIN conversation_history \cup {new}
                  /\ new \notin DOMAIN conversation_history
                  /\ new \notin Issued
                  /\ new # call'.session_id
                  /\ response_data'.session_id = new
                  /\ Len(conversation_history'[new].messages) =
                         IF response_data'.confidence = ConfidenceFailed THEN 0 ELSE 2]_vars

\* a turn sent with an identifier that was issued once and is no session now
C4_Witness ==
    /\ SentMessage
    /\ call.session_id \in Issued
    /\ call.session_id \notin DOMAIN conversation_history
    /\ response_data.session_id \in DOMAIN conversation_history
    /\ response_data.session_id # call.session_id
    /\ Cardinality(DOMAIN conversation_history) >= 2

\* C5: a session on which n turns succeeded holds exactly 2n messages: message
\* 2i - 1 is the user message with the i-th question, message 2i the assistant
\* message with the model's i-th answer.
C5_HistoryIsTurnsInOrder ==
    \A s \in DOMAIN conversation_history :
        LET messages == conversation_history[s].messages
        IN /\ Len(messages) = 2 * Len(turns[s])
           /\ \A i \in 1..Len(turns[s]) :
                 /\ messages[2 * i - 1].role = "user"
                 /\ messages[2 * i - 1].content = turns[s][i].query
                 /\ messages[2 * i].role = "assistant"
                 /\ messages[2 * i].content = turns[s][i].response

\* two turns in a row on one session, with different questions: four messages
C5_Witness ==
    \E s \in DOMAIN conversation_history :
        /\ Len(turns[s]) = 2
        /\ turns[s][1].query # turns[s][2].query
        /\ Len(conversation_history[s].messages) = 4

\* C6 as stated, with the one bound the code knows for messages, the window of 5:
\* no session ever holds more messages than that.
C6_HistoryBounded ==
    \A s \in DOMAIN conversation_history :
        Len(conversation_history[s].messages) <= HistoryWindow

\* C6, amended: the stored history is not bounded. No step removes a message from a
\* session that stays in the store, and every successful turn makes the history
\* of its session two messages longer, however long it is.
C6_HistoryOnlyGrows ==
    [][\A s \in DOMAIN conversation_history \cap DOMAIN conversation_history' :
          LET before == conversation_history[s].messages
              after == conversation_history'[s].messages
          IN /\ Len(after) >= Len(before)
             /\ SubSeq(after, 1, Len(before)) = before
             /\ (/\ call'.op = "send_message"
                 /\ ~call'.llm.failed
                 /\ call'.session_id = s) => Len(after) = Len(before) + 2]_vars

\* a session holding more messages than the prompt window
C6_Witness ==
    \E s \in DOMAIN conversation_history :
        Len(conversation_history[s].messages) > HistoryWindow

\* C7: when the model answered, confidence is 0.8 if the search gave at least one
\* hit and 0.3 if it gave none, whatever the answer; over an empty index the
\* sources are empty too.
C7_ConfidenceTwoLevels ==
    (SentMessage /\ ~call.llm.failed) =>
        /\ response_data.confidence =
               IF Hits # <<>> THEN ConfidenceWithContext ELSE ConfidenceNoContext
        /\ vector_store = <<>> =>
               /\ response_data.sources = <<>>
               /\ response_data.confidence = ConfidenceNoContext

\* a turn with a hit, answered with the shortest text of the model
C7_Witness ==
    /\ SentMessage
    /\ ~call.llm.failed
    /\ Hits # <<>>
    /\ Len(Strip(call.llm.text)) = 1
    /\ response_data.confidence = ConfidenceWithContext

\* C8: when the model answered, sources has one entry per hit, at most 5, in the
\* order of the hits; entry i has the file name and the score of hit i, and as
\* content the chunk text if it has at most 200 characters, else its first 200
\* characters and "...". Over an index holding only one chunk of invoice_a.pdf the
\* sources are that one entry.
C8_SourcesFollowHits ==
    (SentMessage /\ ~call.llm.failed) =>
        LET sources == response_data.sources
        IN /\ Len(sources) = Len(Hits)
           /\ Len(sources) <= SearchLimit
           /\ \A i \in 1..Len(sources) :
                 LET text == Hits[i].doc.page_content
                 IN /\ sources[i].filename = Hits[i].doc.metadata.filename
                    /\ sources[i].score = Hits[i].score
                    /\ sources[i].content =
                           IF Len(text) <= PreviewLen
                           THEN text
                           ELSE SubSeq(text, 1, PreviewLen) \o Ellipsis
           /\ (/\ ~call.search.failed
               /\ Len(vector_store) = 1
               /\ vector_store[1].metadata.filename = "invoice_a.pdf") =>
                  /\ Len(sources) = 1
                  /\ sources[1].filename = "invoice_a.pdf"

\* five sources out of a larger index, ranked otherwise than indexed, one with a
\* text of exactly 200 characters and one with a longer, cut text
C8_Witness ==
    /\ SentMessage
    /\ ~call.llm.failed
    /\ Len(vector_store) > SearchLimit
    /\ Len(response_data.sources) = SearchLimit
    /\ Hits[1].doc # vector_store[1]
    /\ \E i, j \in 1..SearchLimit :
          /\ Len(Hits[i].doc.page_content) = PreviewLen
          /\ response_data.sources[i].content = Hits[i].doc.page_content
          /\ Len(Hits[j].doc.page_content) > PreviewLen
          /\ Len(response_data.sources[j].content) = PreviewLen + Len(Ellipsis)

\* C9: the document type process_document gets from classify_document is one of
\* contract, invoice, report, letter, other.
C9_ClassificationInTaxonomy ==
    (Processed /\ ~response_data.raised) => response_data.document_type \in Categories

\* C10: the chunks process_document writes to the index are stamped 0, 1, ..., n - 1
\* in the order they are written, all with the document id that the result
\* returns as vector_id.
C10_ChunkIndexContiguous ==
    (Processed /\ ~response_data.raised) =>
        LET chunks == response_data.chunks
            n == Len(chunks)
        IN /\ n = response_data.num_chunks
           /\ Len(vector_store) >= n
           /\ SubSeq(vector_store, Len(vector_store) - n + 1, Len(vector_store)) = chunks
           /\ \A j \in 1..n :
                 /\ chunks[j].metadata.chunk_index = j - 1
                 /\ chunks[j].metadata.document_id = response_data.vector_id

\* a document with two chunks of the same text and the same loader metadata
C10_Witness ==
    /\ Processed
    /\ ~response_data.raised
    /\ \E i, j \in 1..Len(response_data.chunks) :
          /\ i < j
          /\ response_data.chunks[i].page_content = response_data.chunks[j].page_content
          /\ "page" \notin DOMAIN response_data.chunks[i].metadata
          /\ response_data.chunks[i].metadata.source = response_data.chunks[j].metadata.source

\* C11: process_document on a file whose extension has no loader raises the
\* ValueError of load_document, calls the language model neither for the
\* classification nor for the extraction, and leaves the vector index as it was.
C11_UnsupportedExtensionRaises ==
    [][(call'.op = "process_document"
            /\ Lower(call'.file.file_path.suffix) \notin LoaderExtensions) =>
          /\ response_data'.raised
          /\ response_data'.error = "ValueError"
          /\ response_data'.llm_calls = 0
          /\ vector_store' = vector_store
          /\ uuid_count' = uuid_count]_vars

\* a .Xyz file was given to the pipeline while the index holds the chat corpus and
\* every collaborator would have done its work
C11_Witness ==
    /\ Processed
    /\ call.file.original_filename = "data.Xyz"
    /\ call.env = InvoiceEnv
    /\ response_data.raised
    /\ vector_store # <<>>

BackgroundRan == call.op = "process_document_background"

\* the row the background task worked for, when the table still holds it
TaskRow == db_documents[call.task.document_id]

\* C12 as stated: every extension the upload endpoint accepts has a loader, so the
\* background task of an accepted upload does not fail while the loader, the
\* model, the index and the database all do their work.
C12_AcceptedExtensionsLoad ==
    (BackgroundRan /\ response_data.processed /\ call.env = InvoiceEnv /\ call.db = DbOk) =>
        /\ Lower(call.task.file.file_path.suffix) \in LoaderExtensions
        /\ ~response_data.result.raised
        /\ TaskRow.status = "completed"

\* C13 as stated: once its background task has run, a row is "completed" or
\* "failed", never "processing"; it is "failed" whenever process_document or the
\* commit of its result failed.
C13_NeverStuck ==
    (BackgroundRan /\ response_data.processed) =>
        /\ TaskRow.status \in {"completed", "failed"}
        /\ (response_data.result.raised \/ ~call.db.commit_ok) => TaskRow.status = "failed"

\* C14 as stated: a run of process_document whose loader, splitter, index write and
\* file size lookup work returns a result and writes its chunks, whatever the model
\* does for the classification and the extraction.
C14_ModelFailuresTolerated ==
    (/\ Processed
     /\ Lower(call.file.file_path.suffix) \in LoaderExtensions
     /\ call.env.load_ok /\ call.env.split_ok /\ call.env.add_ok /\ call.env.size_ok) =>
        /\ ~response_data.raised
        /\ response_data.num_chunks = Len(call.file.texts)

\* the run of process_document in the background task got as far as the write to
\* the index, and the write failed
IndexStepFailed ==
    /\ BackgroundRan
    /\ response_data.processed
    /\ Lower(call.task.file.file_path.suffix) \in LoaderExtensions
    /\ call.env.load_ok
    /\ ~call.env.classify.failed
    /\ ~call.env.extract.failed
    /\ call.env.split_ok
    /\ ~call.env.add_ok

Summarized == call.op = "get_conversation_summary"

\* C16: get_conversation_summary never raises and changes nothing. For an unknown
\* session or one without messages it returns "No conversation to summarize."
\* and does not call the model; otherwise it gives the model every message of the
\* session, one "role: content" line each, oldest first, and returns
\* "Unable to generate summary." when the call fails and the model's text,
\* stripped, when it succeeds.
C16_SummaryNeverRaises ==
    [][call'.op = "get_conversation_summary" =>
          /\ ~response_data'.raised
          /\ conversation_history' = conversation_history
          /\ vector_store' = vector_store
          /\ uuid_count' = uuid_count
          /\ IF \/ call'.session_id \notin DOMAIN conversation_history
                \/ conversation_history[call'.session_id].messages = <<>>
             THEN /\ response_data'.summary = NoConversationText
                  /\ ~call'.prompt.called
             ELSE LET messages == conversation_history[call'.session_id].messages
                  IN /\ call'.prompt.called
                     /\ call'.prompt.text =
                            JoinLines([i \in 1..Len(messages) |->
                                RoleText(messages[i].role) \o <<":", " ">>
                                    \o messages[i].content])
                     /\ response_data'.summary =
                            IF call'.llm.failed THEN UnableSummaryText
                            ELSE Strip(call'.llm.text)]_vars

\* a summary of a session that holds more messages than the prompt window, given
\* by the model with whitespace around it
C16_Witness ==
    /\ Summarized
    /\ call.session_id \in DOMAIN conversation_history
    /\ Len(conversation_history[call.session_id].messages) > HistoryWindow
    /\ call.llm = PaddedAnswer
    /\ response_data.summary = <<"b">>

Suggested == call.op = "suggest_follow_up_questions"

\* the lines of the model's answer that are not blank, each without the whitespace
\* around it
AnswerLines ==
    LET lines == Split(Strip(call.llm.text), "\n")
    IN SelectSeq([i \in 1..Len(lines) |-> Strip(lines[i])], LAMBDA line : line # <<>>)

\* line is "k." followed by a question
Numbered(line, k) ==
    /\ Len(line) > 2
    /\ line[1] = <<"1", "2", "3">>[k]
    /\ line[2] = "."
    /\ Strip(SubSeq(line, 3, Len(line))) # <<>>

\* the answer is three lines numbered 1., 2., 3.
WellFormedAnswer == Len(AnswerLines) = 3 /\ \A k \in 1..3 : Numbered(AnswerLines[k], k)

\* C17: suggest_follow_up_questions never raises and returns at most 3 questions.
\* For an unknown session or a failed model call it returns none. For an answer of
\* three lines numbered 1., 2., 3. it returns the three texts after the markers,
\* stripped, in order. For an answer with fewer than 3 lines that begin with a
\* digit it returns fewer than 3.
C17_FollowUpsParsed ==
    Suggested =>
        LET suggestions == response_data.suggestions
            known == call.session_id \in DOMAIN conversation_history
        IN /\ ~response_data.raised
           /\ Len(suggestions) <= 3
           /\ (~known \/ call.llm.failed) => suggestions = <<>>
           /\ (known /\ ~call.llm.failed /\ WellFormedAnswer) =>
                  suggestions =
                      [k \in 1..3 |-> Strip(SubSeq(AnswerLines[k], 3, Len(AnswerLines[k])))]
           /\ (known /\ ~call.llm.failed
                  /\ Len(SelectSeq(AnswerLines, LAMBDA line : IsDigit(line[1]))) < 3) =>
                  Len(suggestions) < 3

\* three numbered lines with whitespace around them, a blank line between and a
\* full stop inside a question: the three questions come back trimmed
C17_Witness ==
    /\ Suggested
    /\ call.session_id \in DOMAIN conversation_history
    /\ ~call.llm.failed
    /\ WellFormedAnswer
    /\ Len(call.llm.text) > Len(Strip(call.llm.text))
    /\ response_data.suggestions = <<<<"a", "?">>, <<"b", ".", "c">>, <<"c">>>>

\* C18 as stated: what process_document gets from extract_structured_data is a
\* mapping, whatever the document type and the model's answer: the raw text alone,
\* without a call of the model, for a type without extraction prompt; the
\* model's answer and the raw text when the answer is no JSON; never a list.
C18_ExtractionIsMapping ==
    (Processed /\ ~response_data.raised) =>
        LET extracted_data == response_data.extracted_data
        IN /\ extracted_data.type = "dict"
           /\ response_data.document_type \notin extraction_prompts =>
                  /\ DOMAIN extracted_data.items = {"raw_text"}
                  /\ response_data.llm_calls = 1
           /\ (/\ response_data.document_type \in extraction_prompts
               /\ json_loads(call.env.extract.text).raised) =>
                  /\ DOMAIN extracted_data.items = {"extracted_text", "raw_text"}
                  /\ extracted_data.items.extracted_text = call.env.extract.text

\* the position of a state in the order of the pipeline
Position(state) == CHOOSE i \in 1..Len(PipelineOrder) : PipelineOrder[i] = state

Terminal(state) == state \in {"Completed", "Failed"}

\* C19: a run of process_document goes from one state to the next in the order
\* Loaded, Classified, Extracted, Chunked, Indexed, Completed, or to Failed;
\* nothing follows Completed or Failed but the start of another run. The index
\* changes only in the step from Chunked to Indexed, which appends the chunks of
\* the run once; a result is returned only in the step to Completed, after that
\* write; and the run ends as process_document, taken as one step, ends on the
\* same file.
C19_PipelineOrder ==
    [][/\ pipeline'.state # pipeline.state =>
            \/ pipeline.state \in {"Idle", "Completed", "Failed"} /\ pipeline'.state = "Started"
            \/ /\ ~Terminal(pipeline.state)
               /\ pipeline.state # "Idle"
               /\ \/ pipeline'.state = "Failed"
                  \/ /\ pipeline'.state # "Failed"
                     /\ Position(pipeline'.state) = Position(pipeline.state) + 1
       /\ pipeline'.state = pipeline.state => pipeline' = pipeline
       /\ vector_store' # vector_store =>
            pipeline.state = "Chunked" /\ pipeline'.state = "Indexed"
       /\ (pipeline.state = "Chunked" /\ pipeline'.state = "Indexed") =>
            /\ vector_store' = vector_store \o pipeline.text_chunks
            /\ pipeline'.writes = 1
       /\ pipeline'.writes <= 1
       /\ ("vector_id" \in DOMAIN response_data' /\ pipeline'.state # "Idle") =>
            /\ pipeline'.state = "Completed"
            /\ pipeline'.writes = 1
            /\ Len(vector_store') >= Len(pipeline'.text_chunks)
            /\ SubSeq(vector_store', Len(vector_store') - Len(pipeline'.text_chunks) + 1,
                      Len(vector_store')) = response_data'.chunks
       /\ pipeline'.state = "Completed" => "vector_id" \in DOMAIN response_data'
       /\ (Terminal(pipeline'.state) /\ ~Terminal(pipeline.state)) =>
            LET out == process_document(pipeline'.start_store, pipeline'.start_uuid,
                                        pipeline'.file, pipeline'.env)
            IN /\ vector_store' = out.store
               /\ uuid_count' = out.uuid
               /\ response_data' = [f \in DOMAIN out \ {"store", "uuid"} |-> out[f]]]_vars

\* a run is Completed with one write to an index that held chunks before, after
\* earlier runs went to Failed from every state before Completed
C19_Witness ==
    /\ pipeline.state = "Completed"
    /\ pipeline.writes = 1
    /\ pipeline.start_store # <<>>
    /\ pipeline.failed_from =
           {"Started", "Loaded", "Classified", "Extracted", "Chunked", "Indexed"}

\* C20: the history a chat turn gives to the model is made of the last
\* min(5, length) messages the session held before the turn, one "role: content"
\* line each, oldest first; this turn's question and answer are not among them;
\* for a session without messages, and for a session the turn creates, it is
\* "No previous conversation.".
C20_PromptHistoryWindow ==
    [][call'.op = "send_message" =>
          LET before == IF call'.session_id \in DOMAIN conversation_history
                        THEN conversation_history[call'.session_id].messages
                        ELSE <<>>
              n == IF Len(before) < 5 THEN Len(before) ELSE 5
              window == [i \in 1..n |-> before[Len(before) - n + i]]
          IN /\ call'.prompt.called
             /\ call'.prompt.query = call'.message
             /\ call'.prompt.history =
                    IF before = <<>> THEN NoPreviousConversation
                    ELSE JoinLines([i \in 1..n |->
                             RoleText(window[i].role) \o <<":", " ">> \o window[i].content])]_vars

\* a turn that succeeded on a session that held more than 5 messages before it
C20_Witness ==
    /\ SentMessage
    /\ ~call.llm.failed
    /\ call.session_id \in DOMAIN conversation_history
    /\ Len(conversation_history[call.session_id].messages) > HistoryWindow + 2
    /\ call.prompt.history # NoPreviousConversation

\* all callers are through generate_response, on one session, none has returned
AllDone(session_id) ==
    \A t \in Threads : threads[t].pc = "done" /\ threads[t].session_id = session_id

\* the callers whose call succeeded
Succeeded == {t \in Threads : threads[t].result.confidence # ConfidenceFailed}

\* the turn of caller t is stored at i and j: its user message before its
\* assistant message
TurnAt(messages, t, i, j) ==
    /\ i < j
    /\ messages[i].role = "user"
    /\ messages[i].content = threads[t].query
    /\ messages[j].role = "assistant"
    /\ messages[j].content = threads[t].llm.text

\* the messages after the first n are exactly the turns of the callers in
\* who, each stored whole and in its own order
TurnsStored(messages, n, who) ==
    LET new == (n + 1)..Len(messages)
    IN /\ Len(messages) = n + 2 * Cardinality(who)
       /\ \E at \in [who -> new \X new] :
             /\ \A t \in who : TurnAt(messages, t, at[t][1], at[t][2])
             /\ \A t, u \in who :
                   t # u => {at[t][1], at[t][2]} \cap {at[u][1], at[u][2]} = {}

\* C21: when the calls running side by side on one existing session are all
\* through, the history is the history from before them, unchanged, followed by
\* two messages for every call that succeeded (four when both did), and each
\* call's user message stands before that call's assistant message
C21_NoAppendLost ==
    \A session_id \in DOMAIN conversation_history :
        AllDone(session_id) =>
            LET messages == conversation_history[session_id].messages
                before == threads[CHOOSE t \in Threads : TRUE].before
            IN /\ \A t \in Threads : threads[t].before = before
               /\ Len(messages) >= Len(before)
               /\ SubSeq(messages, 1, Len(before)) = before
               /\ TurnsStored(messages, Len(before), Succeeded)

\* both calls succeeded on a session that had a history, both prompts were made
\* from the same text of that history, and the turns are stored interleaved:
\* user, user, assistant, assistant, the second caller's answer first
C21_Witness ==
    \E session_id \in DOMAIN conversation_history :
        /\ AllDone(session_id)
        /\ Succeeded = Threads
        /\ threads[1].before # <<>>
        /\ threads[1].history = threads[2].history
        /\ threads[1].llm.text # threads[2].llm.text
        /\ LET messages == conversation_history[session_id].messages
               n == Len(threads[1].before)
           IN /\ Len(messages) = n + 4
              /\ messages[n + 1].role = "user"
              /\ messages[n + 2].role = "user"
              /\ messages[n + 3].role = "assistant"
              /\ messages[n + 3].content = threads[2].llm.text
              /\ messages[n + 4].content = threads[1].llm.text

\* the step is a run of process_document_background on a record that exists
BackgroundStep ==
    /\ call'.op = "process_document_background"
    /\ call'.task \in tasks
    /\ tasks' = tasks \ {call'.task}
    /\ response_data'.processed

\* C22: a run of process_document that raises, at whichever step, and a run
\* whose record ends "failed", leave the vector index as it was: no chunk of
\* the document is in it
C22_FailedLeavesNoChunks ==
    [][(/\ BackgroundStep
        /\ \/ response_data'.result.raised
           \/ db_documents'[call'.task.document_id].status = "failed")
          => vector_store' = vector_store]_vars

====
